---- MODULE Spec2Model ----
(***************************************************************************)
(* SAFE-SURFERS: a browser-extension threat monitor.                       *)
(*                                                                         *)
(*   - the contextual risk scorer      (src/anomaly-scoring.ts)            *)
(*   - the script analyzer             (src/unnamed/part_003)              *)
(*   - the traffic window aggregator   (src/src/background/network-monitor.ts) *)
(*                                                                         *)
(* Each component has its own specification over the shared variables:     *)
(* SpecScore, SpecScan and SpecNet.                                        *)
(*                                                                         *)
(* Numbers.  The scorer works on JavaScript doubles; every quantity it     *)
(* computes from integer metrics is a rational with a small fixed          *)
(* denominator, so the model keeps exact integer numerators:               *)
(*   sub-scores      in half points          (Pts(p) = 2 * p)              *)
(*   combinedScore   in 1/80000 of a point   (CombinedDen = 80000)         *)
(* An optional metric is a sequence of length at most one: << >> when the  *)
(* field is undefined, <<v>> when it holds v.                              *)
(***************************************************************************)
EXTENDS Integers, Sequences, FiniteSets

VARIABLES
    metrics,    \* scorer: the AnomalyMetrics argument
    context,    \* scorer: << >> or <<ThreatContext>> returned by the last analyzeContext
    level,      \* scorer: << >> or <<risk level>> returned by the last getRiskLevel
    calls,      \* scorer: number of analyzeContext calls made so far
    script,     \* analyzer: the script text, as what esprima.parseScript makes of it
    scriptId,   \* analyzer: the scriptId argument
    verdict,    \* analyzer: << >> or <<the boolean scanScriptForAnomalies returned>>
    raised,     \* analyzer: an exception left scanScriptForAnomalies
    variant,    \* aggregator: which draft of network-monitor.ts is running
    hostUploadBytes, \* aggregator: the Map host -> bytes, as its entries in insertion order
    request,    \* aggregator: << >> or <<the request the listener was last called with>>
    returned,   \* aggregator: << >> (undefined) or <<what the listener returned>>
    lastOp,     \* aggregator: "none", "observe" or "tick": the handler that ran last
    observedSum, \* history: per host, the positive byte counts seen since the last tick, summed
    requests,   \* history: requests seen since the last tick
    unreported, \* history: per https host, the positive byte counts seen minus the bytes_uploaded reported
    stored,     \* log storage: << >> (key not set) or <<the array under security_logs>>
    saves,      \* log storage: the saveLog calls made, each with its position and what it read
    now,        \* log storage: the value Date.now() returns
    emitted     \* the records handed to saveLog by the latest handler, in call order

vars == <<metrics, context, level, calls, script, scriptId, verdict, raised,
          variant, hostUploadBytes, request, returned, lastOp, observedSum, requests,
          unreported, stored, saves, now, emitted>>
scorerVars == <<metrics, context, level, calls>>
analyzerVars == <<script, scriptId, verdict, raised>>
netVars == <<variant, hostUploadBytes, request, returned, lastOp, observedSum, requests,
             unreported>>
logVars == <<stored, saves, now>>

\* ------------------------------------------------------------------------
\* Bounds of the model
\* ------------------------------------------------------------------------
MaxCalls == 2
\* statements in a script
MaxStmts == 2
\* requests between two ticks
MaxRequests == 3

\* ------------------------------------------------------------------------
\* JavaScript helpers
\* ------------------------------------------------------------------------
Undefined == << >>
Some(v) == <<v>>
IsDefined(f) == f # << >>
\* truthiness of an optional number: defined and not 0
TruthyNum(f) == f # << >> /\ f[1] # 0
\* truthiness of an optional boolean: defined and true
TruthyBool(f) == f # << >> /\ f[1]
Min(a, b) == IF a < b THEN a ELSE b

MiB == 1024 * 1024
\* points -> half points
Pts(p) == 2 * p

\* ------------------------------------------------------------------------
\* src/anomaly-scoring.ts : sub-scores (in half points)
\* ------------------------------------------------------------------------
\* fault: the tiers of a group written as independent ifs, so that they add up
calculateBehavioralScore_cumulative(m) ==
    LET s1 == (IF m.requestCount > 50 THEN 30 ELSE 0)
              + (IF m.requestCount > 20 THEN 20 ELSE 0)
              + (IF m.requestCount > 10 THEN 10 ELSE 0)
        s2 == (IF m.dataExfilSize > 10 * MiB THEN 25 ELSE 0)
              + (IF m.dataExfilSize > 5 * MiB THEN 18 ELSE 0)
              + (IF m.dataExfilSize > 1 * MiB THEN 10 ELSE 0)
        s3 == (IF TruthyNum(m.uploadFrequency) /\ m.uploadFrequency[1] > 10 THEN 20 ELSE 0)
              + (IF TruthyNum(m.uploadFrequency) /\ m.uploadFrequency[1] > 5 THEN 12 ELSE 0)
        s4h == (10 - m.domainRepScore) * 5
    IN  Min(Pts(s1 + s2 + s3) + s4h, Pts(100))

\* fault: the reputation term not inverted (domainRepScore * 2.5)
calculateBehavioralScore_notInverted(m) ==
    LET s1 == IF m.requestCount > 50 THEN 30
              ELSE IF m.requestCount > 20 THEN 20
              ELSE IF m.requestCount > 10 THEN 10 ELSE 0
        s2 == IF m.dataExfilSize > 10 * MiB THEN 25
              ELSE IF m.dataExfilSize > 5 * MiB THEN 18
              ELSE IF m.dataExfilSize > 1 * MiB THEN 10 ELSE 0
        s3 == IF TruthyNum(m.uploadFrequency) /\ m.uploadFrequency[1] > 10 THEN 20
              ELSE IF TruthyNum(m.uploadFrequency) /\ m.uploadFrequency[1] > 5 THEN 12
              ELSE 0
        s4h == m.domainRepScore * 5
    IN  Min(Pts(s1 + s2 + s3) + s4h, Pts(100))

calculateBehavioralScore(m) ==
    LET s1 == IF m.requestCount > 50 THEN 30
              ELSE IF m.requestCount > 20 THEN 20
              ELSE IF m.requestCount > 10 THEN 10 ELSE 0
        \* exfilMB = dataExfilSize / 2^20 is exact, so exfilMB > k iff size > k MiB
        s2 == IF m.dataExfilSize > 10 * MiB THEN 25
              ELSE IF m.dataExfilSize > 5 * MiB THEN 18
              ELSE IF m.dataExfilSize > 1 * MiB THEN 10 ELSE 0
        s3 == IF TruthyNum(m.uploadFrequency) /\ m.uploadFrequency[1] > 10 THEN 20
              ELSE IF TruthyNum(m.uploadFrequency) /\ m.uploadFrequency[1] > 5 THEN 12
              ELSE 0
        \* (10 - domainRepScore) * 2.5, in half points
        s4h == (10 - m.domainRepScore) * 5
    IN  Min(Pts(s1 + s2 + s3) + s4h, Pts(100))

calculateTemporalScore(m) ==
    LET s1 == IF TruthyBool(m.isFirstVisit)
              THEN (IF m.requestCount > 20 THEN 25 ELSE 0)
                   + (IF m.dataExfilSize > MiB THEN 20 ELSE 0)
              ELSE 0
        s2 == IF ~TruthyBool(m.userInteractionOccurred)
              THEN (IF m.requestCount > 5 THEN 30
                    ELSE IF m.requestCount > 0 THEN 15 ELSE 0)
              ELSE 0
        s3 == IF IsDefined(m.timeOfDay)
                 /\ m.timeOfDay[1] >= 2 /\ m.timeOfDay[1] <= 5 THEN 20 ELSE 0
        s4 == IF IsDefined(m.domainAge)
              THEN (IF m.domainAge[1] = 0 THEN 30
                    ELSE IF m.domainAge[1] < 7 THEN 20
                    ELSE IF m.domainAge[1] < 30 THEN 10 ELSE 0)
              ELSE 0
    IN  Min(Pts(s1 + s2 + s3 + s4), Pts(100))

\* fault: the middle tier of the dangerous-function count tested with >= 5
calculateStructuralScore_inclusiveTier(m) ==
    LET s1 == IF m.obfuscationDetected THEN 40 ELSE 0
        s2 == IF IsDefined(m.dangerousFunctionCount)
              THEN (IF m.dangerousFunctionCount[1] > 10 THEN 30
                    ELSE IF m.dangerousFunctionCount[1] >= 5 THEN 20
                    ELSE IF m.dangerousFunctionCount[1] > 0 THEN 10 ELSE 0)
              ELSE 0
        s3 == IF TruthyBool(m.cookieAccessDetected) THEN 30 ELSE 0
    IN  Min(Pts(s1 + s2 + s3), Pts(100))

calculateStructuralScore(m) ==
    LET s1 == IF m.obfuscationDetected THEN 40 ELSE 0
        s2 == IF IsDefined(m.dangerousFunctionCount)
              THEN (IF m.dangerousFunctionCount[1] > 10 THEN 30
                    ELSE IF m.dangerousFunctionCount[1] > 5 THEN 20
                    ELSE IF m.dangerousFunctionCount[1] > 0 THEN 10 ELSE 0)
              ELSE 0
        s3 == IF TruthyBool(m.cookieAccessDetected) THEN 30 ELSE 0
    IN  Min(Pts(s1 + s2 + s3), Pts(100))

\* fault: the vectors array hoisted to module scope, so that the tags of earlier
\* calls are still in it
newVectors_shared == IF context = << >> THEN << >> ELSE context[1].threatVector

\* const vectors: string[] = [] -- a fresh array on every call
newVectors == << >>

\* fault: RAPID_EXFIL on the threshold of the upload-frequency tier (> 10), and
\* pushed first
identifyThreatVectors_byTier(m) ==
    newVectors
    \o (IF TruthyNum(m.uploadFrequency) /\ m.uploadFrequency[1] > 10
        THEN <<"RAPID_EXFIL">> ELSE << >>)
    \o (IF m.dataExfilSize > 5 * MiB THEN <<"DATA_EXFILTRATION">> ELSE << >>)
    \o (IF m.obfuscationDetected /\ TruthyNum(m.dangerousFunctionCount)
           /\ m.dangerousFunctionCount[1] > 5
        THEN <<"OBFUSCATED_MALWARE">> ELSE << >>)
    \o (IF TruthyBool(m.cookieAccessDetected) /\ m.dataExfilSize > 0
        THEN <<"SESSION_HIJACKING">> ELSE << >>)
    \o (IF ~TruthyBool(m.userInteractionOccurred) /\ m.requestCount > 10
        THEN <<"BACKGROUND_BEACON">> ELSE << >>)
    \o (IF TruthyBool(m.isFirstVisit)
           /\ (m.requestCount > 20 \/ m.dataExfilSize > MiB)
        THEN <<"ZERO_DAY_ATTACK">> ELSE << >>)

\* identifyThreatVectors: the tags in the order the code pushes them
identifyThreatVectors(m) ==
    newVectors
    \o (IF m.dataExfilSize > 5 * MiB THEN <<"DATA_EXFILTRATION">> ELSE << >>)
    \o (IF m.obfuscationDetected /\ TruthyNum(m.dangerousFunctionCount)
           /\ m.dangerousFunctionCount[1] > 5
        THEN <<"OBFUSCATED_MALWARE">> ELSE << >>)
    \o (IF TruthyBool(m.cookieAccessDetected) /\ m.dataExfilSize > 0
        THEN <<"SESSION_HIJACKING">> ELSE << >>)
    \o (IF ~TruthyBool(m.userInteractionOccurred) /\ m.requestCount > 10
        THEN <<"BACKGROUND_BEACON">> ELSE << >>)
    \o (IF TruthyBool(m.isFirstVisit)
           /\ (m.requestCount > 20 \/ m.dataExfilSize > MiB)
        THEN <<"ZERO_DAY_ATTACK">> ELSE << >>)
    \o (IF TruthyNum(m.uploadFrequency) /\ m.uploadFrequency[1] > 15
        THEN <<"RAPID_EXFIL">> ELSE << >>)

\* fault: every field counted with the same weight
calculateConfidence_unweighted(m) ==
    LET W(f) == IF IsDefined(f) THEN 1 ELSE 0
        dataPoints == 4 + W(m.uploadFrequency) + W(m.dangerousFunctionCount)
                      + W(m.cookieAccessDetected) + W(m.isFirstVisit)
                      + W(m.userInteractionOccurred) + W(m.timeOfDay) + W(m.domainAge)
    IN  (200 * dataPoints + 11) \div (2 * 11)

\* calculateConfidence: the weights in tenths; requestCount, domainRepScore,
\* dataExfilSize and obfuscationDetected are always defined
calculateConfidence(m) ==
    LET W(f, w) == IF IsDefined(f) THEN w ELSE 0
        availablePoints == 10 + 10 + 10 + 8 + 10 + 8 + 8 + 6 + 6 + 4 + 7
        dataPoints == 10 + 10 + 10 + W(m.uploadFrequency, 8) + 10
                      + W(m.dangerousFunctionCount, 8)
                      + W(m.cookieAccessDetected, 8)
                      + W(m.isFirstVisit, 6)
                      + W(m.userInteractionOccurred, 6)
                      + W(m.timeOfDay, 4)
                      + W(m.domainAge, 7)
    \* Math.round(x) = floor(x + 1/2)
    IN  (200 * dataPoints + availablePoints) \div (2 * availablePoints)

\* denominator of combinedScore: 20 for the weights on half points, then
\* 10, 4, 5 and 20 for the multipliers 13/10, 5/4, 7/5 and 27/20
CombinedDen == 20 * 10 * 4 * 5 * 20

\* b*0.40 + t*0.30 + s*0.30 on half points, over 20
weightedCombination(b, t, s) == 4 * b + 3 * t + 3 * s

\* fault: the patterns chained with else-if, so that only the first match applies
applyMultipliers_firstOnly(m, c0) ==
    IF m.obfuscationDetected /\ m.dataExfilSize > MiB
    THEN c0 * 13 * 4 * 5 * 20
    ELSE IF TruthyBool(m.isFirstVisit) /\ ~TruthyBool(m.userInteractionOccurred)
            /\ m.requestCount > 10
    THEN c0 * 10 * 5 * 5 * 20
    ELSE IF TruthyBool(m.cookieAccessDetected) /\ TruthyNum(m.uploadFrequency)
            /\ m.uploadFrequency[1] > 10
    THEN c0 * 10 * 4 * 7 * 20
    ELSE IF m.domainRepScore < 3 /\ m.obfuscationDetected /\ m.dataExfilSize > 0
    THEN c0 * 10 * 4 * 5 * 27
    ELSE c0 * 10 * 4 * 5 * 20

\* the four cross-dimensional multipliers, each tested on the metrics alone
\* and applied in turn; the result is over CombinedDen
applyMultipliers(m, c0) ==
    LET \* Pattern 1: *= 1.3, over 200
        c1 == IF m.obfuscationDetected /\ m.dataExfilSize > MiB
              THEN c0 * 13 ELSE c0 * 10
        \* Pattern 2: *= 1.25, over 800
        c2 == IF TruthyBool(m.isFirstVisit) /\ ~TruthyBool(m.userInteractionOccurred)
                 /\ m.requestCount > 10
              THEN c1 * 5 ELSE c1 * 4
        \* Pattern 3: *= 1.4, over 4000
        c3 == IF TruthyBool(m.cookieAccessDetected) /\ TruthyNum(m.uploadFrequency)
                 /\ m.uploadFrequency[1] > 10
              THEN c2 * 7 ELSE c2 * 5
        \* Pattern 4: *= 1.35, over 80000
        c4 == IF m.domainRepScore < 3 /\ m.obfuscationDetected /\ m.dataExfilSize > 0
              THEN c3 * 27 ELSE c3 * 20
    IN  c4

\* fault: the cap left out
capCombined_missing(c) == c

\* Math.min(combinedScore, 100)
capCombined(c) == Min(c, 100 * CombinedDen)

analyzeContext(m) ==
    LET behavioralScore == calculateBehavioralScore(m)
        temporalScore == calculateTemporalScore(m)
        structuralScore == calculateStructuralScore(m)
        combinedScore ==
            capCombined(applyMultipliers(m,
                weightedCombination(behavioralScore, temporalScore, structuralScore)))
    IN  [ behavioralScore |-> behavioralScore,
          temporalScore   |-> temporalScore,
          structuralScore |-> structuralScore,
          combinedScore   |-> combinedScore,
          confidence      |-> calculateConfidence(m),
          threatVector    |-> identifyThreatVectors(m) ]

\* fault: strict comparisons (> for >=)
riskLevelOf_strict(combinedScore) ==
    IF combinedScore > 75 * CombinedDen THEN "CRITICAL"
    ELSE IF combinedScore > 50 * CombinedDen THEN "HIGH"
    ELSE IF combinedScore > 25 * CombinedDen THEN "MEDIUM"
    ELSE "LOW"

\* the thresholds of getRiskLevel on a combined score
riskLevelOf(combinedScore) ==
    IF combinedScore >= 75 * CombinedDen THEN "CRITICAL"
    ELSE IF combinedScore >= 50 * CombinedDen THEN "HIGH"
    ELSE IF combinedScore >= 25 * CombinedDen THEN "MEDIUM"
    ELSE "LOW"

getRiskLevel(m) == riskLevelOf(analyzeContext(m).combinedScore)

\* ------------------------------------------------------------------------
\* The scorer's inputs: one value per tier of every metric
\* ------------------------------------------------------------------------
RequestCounts == {0, 3, 11, 21, 10000}
\* 14 is off the documented 0-10 scale
DomainRepScores == {0, 5, 10, 14}
ExfilSizes == {0, 1, MiB + 1, 10 * MiB + 1}
UploadFrequencies == {Undefined, Some(6), Some(11), Some(16)}
DangerousFunctionCounts == {Undefined, Some(1), Some(11)}
CookieAccesses == {Undefined, Some(TRUE)}
FirstVisits == {Undefined, Some(FALSE), Some(TRUE)}
UserInteractions == {Undefined, Some(FALSE), Some(TRUE)}
TimesOfDay == {Undefined, Some(3)}
DomainAges == {Undefined, Some(0)}

AnomalyMetrics ==
    [ requestCount            : RequestCounts,
      domainRepScore          : DomainRepScores,
      dataExfilSize           : ExfilSizes,
      uploadFrequency         : UploadFrequencies,
      obfuscationDetected     : BOOLEAN,
      dangerousFunctionCount  : DangerousFunctionCounts,
      cookieAccessDetected    : CookieAccesses,
      isFirstVisit            : FirstVisits,
      userInteractionOccurred : UserInteractions,
      timeOfDay               : TimesOfDay,
      domainAge               : DomainAges ]

\* ------------------------------------------------------------------------
\* SpecScore: the scorer applied to one metrics value
\* ------------------------------------------------------------------------
ScorerIdle ==
    /\ metrics = << >>
    /\ context = << >>
    /\ level = << >>
    /\ calls = 0

AnalyzerIdle ==
    /\ script = << >>
    /\ scriptId = ""
    /\ verdict = << >>
    /\ raised = FALSE

NetIdle ==
    /\ variant = "ts_weighted"
    /\ hostUploadBytes = << >>
    /\ request = << >>
    /\ returned = << >>
    /\ lastOp = "none"
    /\ observedSum = << >>
    /\ requests = 0
    /\ unreported = << >>

LogIdle ==
    /\ stored = << >>
    /\ saves = << >>
    /\ now = 0

InitScore ==
    /\ metrics \in AnomalyMetrics
    /\ context = << >>
    /\ level = << >>
    /\ calls = 0
    /\ AnalyzerIdle
    /\ NetIdle
    /\ LogIdle
    /\ emitted = << >>

\* a call of analyzeContext(metrics)
AnalyzeContext ==
    /\ calls < MaxCalls
    /\ context' = <<analyzeContext(metrics)>>
    /\ calls' = calls + 1
    /\ UNCHANGED <<metrics, level, analyzerVars, netVars, logVars, emitted>>

\* a call of getRiskLevel(metrics)
GetRiskLevel ==
    /\ level = << >>
    /\ level' = <<getRiskLevel(metrics)>>
    /\ UNCHANGED <<metrics, context, calls, analyzerVars, netVars, logVars, emitted>>

NextScore == AnalyzeContext \/ GetRiskLevel

SpecScore == InitScore /\ [][NextScore]_vars

\* ------------------------------------------------------------------------
\* Properties of the scorer (checked under SpecScore)
\* ------------------------------------------------------------------------
\* the conditions of the four multipliers as the specification words them
Pattern1(m) == m.obfuscationDetected /\ m.dataExfilSize > MiB
Pattern2(m) ==
    m.isFirstVisit = <<TRUE>> /\ m.userInteractionOccurred # <<TRUE>>
    /\ m.requestCount > 10
Pattern3(m) ==
    m.cookieAccessDetected = <<TRUE>> /\ m.uploadFrequency # << >>
    /\ m.uploadFrequency[1] > 10
Pattern4(m) == m.domainRepScore < 3 /\ m.obfuscationDetected /\ m.dataExfilSize > 0
MatchCount(m) ==
    (IF Pattern1(m) THEN 1 ELSE 0) + (IF Pattern2(m) THEN 1 ELSE 0)
    + (IF Pattern3(m) THEN 1 ELSE 0) + (IF Pattern4(m) THEN 1 ELSE 0)
\* domainRepScore on its documented 0-10 scale
OnScale(m) == m.domainRepScore \in 0..10

C7_RiskLevelThresholds ==
    level # << >> =>
        LET c == analyzeContext(metrics).combinedScore
            l == level[1]
        IN  /\ l \in {"CRITICAL", "HIGH", "MEDIUM", "LOW"}
            /\ (l = "CRITICAL") <=> (c >= 75 * CombinedDen)
            /\ (l = "HIGH") <=> (c >= 50 * CombinedDen /\ c < 75 * CombinedDen)
            /\ (l = "MEDIUM") <=> (c >= 25 * CombinedDen /\ c < 50 * CombinedDen)
            /\ (l = "LOW") <=> (c < 25 * CombinedDen)

\* a score exactly on a threshold has been classified
C7_Witness ==
    /\ level = <<"MEDIUM">>
    /\ analyzeContext(metrics).combinedScore = 25 * CombinedDen

\* C8: combinedScore is behavioral*0.40 + temporal*0.30 + structural*0.30
\* times every matching multiplier (13/10, 5/4, 7/5, 27/20), each condition
\* taken on the input alone and all matches compounding, capped at 100.
C8_CombinedFormula ==
    context # << >> =>
        LET ctx == context[1]
            m == metrics
            \* 20 * (b*0.40 + t*0.30 + s*0.30), the sub-scores being in half points
            base == 4 * ctx.behavioralScore + 3 * ctx.temporalScore
                    + 3 * ctx.structuralScore
            num == (IF Pattern1(m) THEN 13 ELSE 1) * (IF Pattern2(m) THEN 5 ELSE 1)
                   * (IF Pattern3(m) THEN 7 ELSE 1) * (IF Pattern4(m) THEN 27 ELSE 1)
            den == (IF Pattern1(m) THEN 10 ELSE 1) * (IF Pattern2(m) THEN 4 ELSE 1)
                   * (IF Pattern3(m) THEN 5 ELSE 1) * (IF Pattern4(m) THEN 20 ELSE 1)
            \* den divides CombinedDen / 20 = 4000 whatever the matches
            product == base * (((CombinedDen \div 20) \div den) * num)
        IN  /\ ctx.behavioralScore = calculateBehavioralScore(m)
            /\ ctx.temporalScore = calculateTemporalScore(m)
            /\ ctx.structuralScore = calculateStructuralScore(m)
            /\ ctx.combinedScore = (IF product > 100 * CombinedDen
                                    THEN 100 * CombinedDen ELSE product)

\* two multipliers compound below the cap
C8_Witness ==
    /\ context # << >>
    /\ MatchCount(metrics) >= 2
    /\ context[1].combinedScore < 100 * CombinedDen
    /\ context[1].combinedScore > 0

\* C9: behavioralScore never decreases when only requestCount grows, and never
\* increases when only domainRepScore grows.
C9_BehavioralMonotone ==
    context # << >> =>
        /\ \A r \in RequestCounts :
              r >= metrics.requestCount =>
                  analyzeContext([metrics EXCEPT !.requestCount = r]).behavioralScore
                      >= context[1].behavioralScore
        /\ \A d \in DomainRepScores :
              d >= metrics.domainRepScore =>
                  analyzeContext([metrics EXCEPT !.domainRepScore = d]).behavioralScore
                      <= context[1].behavioralScore

\* both directions are strict somewhere
C9_Witness ==
    /\ context # << >>
    /\ \E r \in RequestCounts :
          /\ r > metrics.requestCount
          /\ analyzeContext([metrics EXCEPT !.requestCount = r]).behavioralScore
                > context[1].behavioralScore
    /\ \E d \in DomainRepScores :
          /\ d > metrics.domainRepScore
          /\ analyzeContext([metrics EXCEPT !.domainRepScore = d]).behavioralScore
                < context[1].behavioralScore

DANGEROUS_CALLS_short == {"eval", "setTimeout", "setInterval", "atob", "btoa"}

DANGEROUS_CALLS == {"eval", "Function", "setTimeout", "setInterval", "atob", "btoa"}
STRING_MANIPULATORS == {"fromCharCode", "charCodeAt", "substr", "substring", "replace"}

Other(key) == [key |-> key, kind |-> "other", kids |-> << >>]
One(key, n) == [key |-> key, kind |-> "node", kids |-> <<n>>]
Many(key, ns) == [key |-> key, kind |-> "array", kids |-> ns]
Node(type, line, name, fields) ==
    [type |-> type, line |-> line, name |-> name, computed |-> FALSE,
     fields |-> <<Other("type")>> \o fields \o <<Other("loc")>>]

Identifier(name, line) == Node("Identifier", line, name, <<Other("name")>>)
Literal(line) == Node("Literal", line, "", <<Other("value"), Other("raw")>>)
CallExpression(callee, arguments, line) ==
    Node("CallExpression", line, "", <<One("callee", callee), Many("arguments", arguments)>>)
NewExpression(callee, arguments, line) ==
    Node("NewExpression", line, "", <<One("callee", callee), Many("arguments", arguments)>>)
\* object.property
MemberExpression(object, property, line) ==
    Node("MemberExpression", line, "",
         <<Other("computed"), One("object", object), One("property", property)>>)
\* object[property]
ComputedMemberExpression(object, property, line) ==
    [MemberExpression(object, property, line) EXCEPT !.computed = TRUE]
AssignmentExpression(left, right, line) ==
    Node("AssignmentExpression", line, "",
         <<Other("operator"), One("left", left), One("right", right)>>)
ExpressionStatement(expression, line) ==
    Node("ExpressionStatement", line, "", <<One("expression", expression)>>)
Program(body) ==
    Node("Program", 1, "", <<Many("body", body), Other("sourceType")>>)

\* node[key] when it is a node: << >> or <<child>>
Child(node, key) ==
    LET at == {i \in DOMAIN node.fields :
                  node.fields[i].key = key /\ node.fields[i].kind = "node"}
    IN  IF at = {} THEN << >> ELSE node.fields[CHOOSE i \in at : TRUE].kids

\* node.loc?.start?.line || 0
lineOf(node) == node.line

\* logAnomaly(scriptId, type, line): the record it hands to saveLog; details is
\* the template string, as its parts
logAnomaly(id, type, line) ==
    [ type             |-> "script_anomaly",
      detection_source |-> "static_analysis",
      severity         |-> "high",
      script_id        |-> id,
      line_number      |-> line,
      details          |-> <<"High-risk function: ">> \o type,
      timestamp        |-> "new Date().toISOString()" ]

NoMatch == [suspicious |-> FALSE, logs |-> << >>]
Match(log) == [suspicious |-> TRUE, logs |-> <<log>>]
\* fault: the traversal stopped at the first match
Both_firstWins(a, b) == IF a.suspicious THEN a ELSE b

\* the flag and the records of two parts of the traversal, in sequence
Both(a, b) == [suspicious |-> a.suspicious \/ b.suspicious, logs |-> a.logs \o b.logs]

\* Rule 1: dangerous calls
dangerousCallRule(node, id) ==
    IF node.type = "CallExpression" /\ Child(node, "callee") # << >>
       /\ Child(node, "callee")[1].type = "Identifier"
       /\ Child(node, "callee")[1].name \in DANGEROUS_CALLS
    THEN Match(logAnomaly(id,
                 <<"Function call to '", Child(node, "callee")[1].name, "'">>,
                 lineOf(node)))
    ELSE NoMatch

\* fault: the includes() test left out, every member access is reported
obfuscationRule_any(node, id) ==
    IF node.type = "MemberExpression" /\ Child(node, "property") # << >>
       /\ Child(node, "property")[1].type = "Identifier"
    THEN Match(logAnomaly(id,
                 <<"Obfuscation method: ", Child(node, "property")[1].name>>,
                 lineOf(node)))
    ELSE NoMatch

\* Rule 2: obfuscation methods
obfuscationRule(node, id) ==
    IF node.type = "MemberExpression" /\ Child(node, "property") # << >>
       /\ Child(node, "property")[1].type = "Identifier"
       /\ Child(node, "property")[1].name \in STRING_MANIPULATORS
    THEN Match(logAnomaly(id,
                 <<"Obfuscation method: ", Child(node, "property")[1].name>>,
                 lineOf(node)))
    ELSE NoMatch

\* fault: only writes through an object named document are reported
cookieWriteRule_documentOnly(node, id) ==
    IF node.type = "AssignmentExpression" /\ Child(node, "left") # << >>
       /\ Child(node, "left")[1].type = "MemberExpression"
       /\ Child(Child(node, "left")[1], "property") # << >>
       /\ Child(Child(node, "left")[1], "property")[1].name = "cookie"
       /\ Child(Child(node, "left")[1], "object")[1].name = "document"
    THEN Match(logAnomaly(id, <<"Writes to document.cookie">>, lineOf(node)))
    ELSE NoMatch

\* Rule 3: cookie modification
cookieWriteRule(node, id) ==
    IF node.type = "AssignmentExpression" /\ Child(node, "left") # << >>
       /\ Child(node, "left")[1].type = "MemberExpression"
       /\ Child(Child(node, "left")[1], "property") # << >>
       /\ Child(Child(node, "left")[1], "property")[1].name = "cookie"
    THEN Match(logAnomaly(id, <<"Writes to document.cookie">>, lineOf(node)))
    ELSE NoMatch

\* the three rules on one node, in the order of the code
applyRules(node, id) ==
    Both(dangerousCallRule(node, id),
         Both(obfuscationRule(node, id), cookieWriteRule(node, id)))

RECURSIVE traverse(_, _)
RECURSIVE traverseFields(_, _)
RECURSIVE traverseArray(_, _)

\* fault: the rules applied after the recursive loop, children before parent
traverse_childrenFirst(node, id) ==
    Both(traverseFields(node.fields, id), applyRules(node, id))

\* traverse(node): the rules on the node, then its properties in key order
traverse(node, id) == Both(applyRules(node, id), traverseFields(node.fields, id))

\* for (const key in node): arrays element-wise, single typed objects
\* recursively, everything else skipped
traverseFields(fields, id) ==
    IF fields = << >> THEN NoMatch
    ELSE LET f == Head(fields)
             here == IF f.kind = "array" THEN traverseArray(f.kids, id)
                     ELSE IF f.kind = "node" THEN traverse(f.kids[1], id)
                     ELSE NoMatch
         IN  Both(here, traverseFields(Tail(fields), id))

\* child.forEach(traverse)
traverseArray(nodes, id) ==
    IF nodes = << >> THEN NoMatch
    ELSE Both(traverse(Head(nodes), id), traverseArray(Tail(nodes), id))

\* fault: the parser's message left out of the record
parseFailureLog_noMessage(id, message) ==
    [ type             |-> "script_analysis_error",
      detection_source |-> "static_analysis",
      severity         |-> "medium",
      script_id        |-> id,
      details          |-> <<"Failed to parse">>,
      timestamp        |-> "new Date().toISOString()" ]

\* the record of the catch block
parseFailureLog(id, message) ==
    [ type             |-> "script_analysis_error",
      detection_source |-> "static_analysis",
      severity         |-> "medium",
      script_id        |-> id,
      details          |-> <<"Failed to parse: ", message>>,
      timestamp        |-> "new Date().toISOString()" ]

\* ------------------------------------------------------------------------
\* The analyzer's inputs.  Statement k of a script starts on line 2k - 1; an
\* argument of a call may sit on the next line.
\* ------------------------------------------------------------------------
X(l) == Identifier("x", l)
CalleeNames == {"eval", "Function", "setTimeout", "setInterval", "atob", "btoa", "x", "replace"}
PropertyNames == {"fromCharCode", "charCodeAt", "substr", "substring", "replace", "cookie", "x"}

\* f() for a bare identifier f
BareCalls(l) == {CallExpression(Identifier(n, l), << >>, l) : n \in CalleeNames}
\* x.p
StaticMembers(l) == {MemberExpression(X(l), Identifier(p, l), l) : p \in PropertyNames}
\* x[replace] and x["replace"]
ComputedMembers(l) ==
    {ComputedMemberExpression(X(l), Identifier("replace", l), l),
     ComputedMemberExpression(X(l), Literal(l), l)}
\* x.eval(), x.fromCharCode(), x.x()
MemberCalls(l) ==
    {CallExpression(MemberExpression(X(l), Identifier(p, l), l), << >>, l) :
        p \in {"eval", "fromCharCode", "x"}}
\* setTimeout(eval(atob(x))) and x(eval()), the inner calls on the next line
NestedCalls(l) ==
    {CallExpression(Identifier("setTimeout", l),
        <<CallExpression(Identifier("eval", l + 1),
            <<CallExpression(Identifier("atob", l + 1), <<X(l + 1)>>, l + 1)>>,
            l + 1)>>, l),
     CallExpression(X(l), <<CallExpression(Identifier("eval", l + 1), << >>, l + 1)>>, l)}
\* left = right
AssignmentTargets(l) ==
    {MemberExpression(X(l), Identifier("cookie", l), l),
     MemberExpression(Identifier("document", l), Identifier("cookie", l), l),
     MemberExpression(X(l), Identifier("x", l), l),
     ComputedMemberExpression(X(l), Literal(l), l),
     ComputedMemberExpression(X(l), Identifier("cookie", l), l),
     Identifier("cookie", l)}
Assignments(l) ==
    {AssignmentExpression(t, Literal(l), l) : t \in AssignmentTargets(l)}
    \cup {AssignmentExpression(MemberExpression(X(l), Identifier("cookie", l), l),
                               CallExpression(Identifier("eval", l + 1), << >>, l + 1), l)}
\* new Function(), a literal, a reference to eval
Others(l) ==
    {NewExpression(Identifier("Function", l), << >>, l), Literal(l), Identifier("eval", l)}

Expressions(l) ==
    BareCalls(l) \cup StaticMembers(l) \cup ComputedMembers(l) \cup MemberCalls(l)
    \cup NestedCalls(l) \cup Assignments(l) \cup Others(l)

\* the expressions of the statements after the first: one of each kind
Following(l) ==
    {CallExpression(Identifier("eval", l), << >>, l),
     CallExpression(X(l), << >>, l),
     CallExpression(MemberExpression(X(l), Identifier("eval", l), l), << >>, l),
     MemberExpression(X(l), Identifier("replace", l), l),
     ComputedMemberExpression(X(l), Literal(l), l),
     AssignmentExpression(MemberExpression(X(l), Identifier("cookie", l), l), Literal(l), l),
     AssignmentExpression(Identifier("cookie", l), Literal(l), l),
     CallExpression(Identifier("setTimeout", l),
        <<CallExpression(Identifier("eval", l + 1),
            <<CallExpression(Identifier("atob", l + 1), <<X(l + 1)>>, l + 1)>>,
            l + 1)>>, l),
     Literal(l)}

RECURSIVE Bodies(_)
\* the statement sequences of length n
Bodies(n) ==
    IF n = 0 THEN {<< >>}
    ELSE {Append(b, ExpressionStatement(e, 2 * n - 1)) :
             b \in Bodies(n - 1),
             e \in IF n = 1 THEN Expressions(1) ELSE Following(2 * n - 1)}

ParserMessages == {"Line 1: Unexpected token", "Line 2: Unexpected end of input"}

\* what esprima.parseScript does with the text: a tree, or an error thrown
Scripts ==
    {[ok |-> TRUE, ast |-> Program(b), message |-> ""] :
        b \in UNION {Bodies(n) : n \in 0..MaxStmts}}
    \cup {[ok |-> FALSE, ast |-> Program(<< >>), message |-> msg] : msg \in ParserMessages}

ScriptIds == {"https://a.example/", "https://b.example/"}

\* ------------------------------------------------------------------------
\* SpecScan: scanScriptForAnomalies applied to one script
\* ------------------------------------------------------------------------
InitScan ==
    /\ ScorerIdle
    /\ NetIdle
    /\ LogIdle
    /\ script \in Scripts
    /\ scriptId \in ScriptIds
    /\ verdict = << >>
    /\ raised = FALSE
    /\ emitted = << >>

\* the try block: the script parses, the tree is walked, suspicious is returned
ScanParsed ==
    /\ verdict = << >>
    /\ script.ok
    /\ LET r == traverse(script.ast, scriptId)
       IN  /\ emitted' = r.logs
           /\ verdict' = <<r.suspicious>>
    /\ raised' = FALSE
    /\ UNCHANGED <<scorerVars, netVars, logVars, script, scriptId>>

\* the catch block: parseScript threw
ScanFailed ==
    /\ verdict = << >>
    /\ ~script.ok
    /\ emitted' = <<parseFailureLog(scriptId, script.message)>>
    /\ verdict' = <<FALSE>>
    /\ raised' = FALSE
    /\ UNCHANGED <<scorerVars, netVars, logVars, script, scriptId>>

NextScan == ScanParsed \/ ScanFailed

SpecScan == InitScan /\ [][NextScan]_vars

\* ------------------------------------------------------------------------
\* Properties of the analyzer (checked under SpecScan)
\* ------------------------------------------------------------------------
Range(f) == {f[i] : i \in DOMAIN f}

RECURSIVE NodesOf(_)
\* every node of the tree below (and including) n
NodesOf(n) ==
    {n} \cup UNION {NodesOf(c) : c \in UNION {Range(f.kids) : f \in Range(n.fields)}}

\* n[key] for a property holding a node
Prop(n, key) == (CHOOSE f \in Range(n.fields) : f.key = key).kids[1]
HasProp(n, key) == \E f \in Range(n.fields) : f.key = key /\ f.kind = "node"

DenyListedFunctions == {"eval", "Function", "setTimeout", "setInterval", "atob", "btoa"}
StringPrimitives == {"fromCharCode", "charCodeAt", "substr", "substring", "replace"}

\* the three rules as the specification words them
IsDangerousCall(n) ==
    /\ n.type = "CallExpression" /\ HasProp(n, "callee")
    /\ Prop(n, "callee").type = "Identifier"
    /\ Prop(n, "callee").name \in DenyListedFunctions
IsObfuscation(n) ==
    /\ n.type = "MemberExpression" /\ HasProp(n, "property")
    /\ Prop(n, "property").type = "Identifier"
    /\ Prop(n, "property").name \in StringPrimitives
IsCookieWrite(n) ==
    /\ n.type = "AssignmentExpression" /\ HasProp(n, "left")
    /\ Prop(n, "left").type = "MemberExpression"
    /\ HasProp(Prop(n, "left"), "property")
    /\ Prop(Prop(n, "left"), "property").name = "cookie"

Scanned == verdict # << >>

\* C1: a script that parses and holds a call of a deny-listed function (a call
\* whose callee is that bare identifier) is reported: the verdict is true and
\* some script_anomaly finding names the function and carries the line of the
\* call.
C1_DangerousCallReported ==
    (Scanned /\ script.ok) =>
        \A n \in NodesOf(script.ast) :
            IsDangerousCall(n) =>
                /\ verdict = <<TRUE>>
                /\ \E i \in DOMAIN emitted :
                      /\ emitted[i].type = "script_anomaly"
                      /\ emitted[i].script_id = scriptId
                      /\ emitted[i].line_number = n.line
                      /\ Prop(n, "callee").name \in Range(emitted[i].details)

\* a call of Function and, in another statement, a deny-listed call nested in
\* the arguments of a call, on a later line than its statement
C1_Witness ==
    /\ Scanned /\ script.ok
    /\ \E n \in NodesOf(script.ast) :
          IsDangerousCall(n) /\ Prop(n, "callee").name = "Function"
    /\ \E n \in NodesOf(script.ast) :
          IsDangerousCall(n) /\ Prop(n, "callee").name = "atob" /\ n.line = 4

\* C2: a script that parses and has no node matching the dangerous-call, the
\* obfuscation or the cookie-write rule gets the verdict false and no finding.
C2_CleanScriptSilent ==
    (Scanned /\ script.ok
     /\ \A n \in NodesOf(script.ast) :
           ~IsDangerousCall(n) /\ ~IsObfuscation(n) /\ ~IsCookieWrite(n))
        => (verdict = <<FALSE>> /\ emitted = << >>)

\* a clean script with a call through a member access and an assignment to a
\* member has been scanned
C2_Witness ==
    /\ Scanned /\ script.ok
    /\ \A n \in NodesOf(script.ast) :
          ~IsDangerousCall(n) /\ ~IsObfuscation(n) /\ ~IsCookieWrite(n)
    /\ \E n \in NodesOf(script.ast) :
          n.type = "CallExpression" /\ Prop(n, "callee").type = "MemberExpression"
    /\ \E n \in NodesOf(script.ast) :
          n.type = "AssignmentExpression" /\ Prop(n, "left").type = "MemberExpression"
    /\ verdict = <<FALSE>>

\* C3: when parsing fails, exactly one record is emitted, of type
\* script_analysis_error and severity medium, with the parser's message in its
\* details; no script_anomaly is emitted, false is returned, nothing is raised.
C3_ParseFailure ==
    (Scanned /\ ~script.ok) =>
        /\ Len(emitted) = 1
        /\ emitted[1].type = "script_analysis_error"
        /\ emitted[1].severity = "medium"
        /\ script.message \in Range(emitted[1].details)
        /\ \A i \in DOMAIN emitted : emitted[i].type # "script_anomaly"
        /\ verdict = <<FALSE>>
        /\ ~raised

\* a script that does not parse has been scanned
C3_Witness ==
    /\ Scanned /\ ~script.ok
    /\ script.message = "Line 2: Unexpected end of input"
    /\ emitted # << >>

\* ------------------------------------------------------------------------
\* src/src/background/network-monitor.ts: the traffic window aggregator
\*
\* The file holds two drafts of the module: lines 1-121 (severity from a byte
\* threshold, variant "js") and lines 122-248 (severity from getRiskLevel,
\* variants "ts_weighted" and "ts_simplified" after the two scorers that
\* claim the path src/lib/anomaly-scoring.ts).
\*
\* A string is the sequence of its tokens; a token is a run of characters that
\* holds none of ? & =, or one of these characters.
\* ------------------------------------------------------------------------
Variants == {"js", "ts_weighted", "ts_simplified"}

\* the parameter names of AFFILIATE_PATTERNS: /(\?|&)name=([^&]+)/i, in order
AFFILIATE_PATTERNS == <<"affiliate_id", "tag", "partner_ref", "ref">>

\* String.prototype.toLowerCase on the tokens of the model
toLowerCase(t) ==
    CASE t = "TAG" -> "tag"
      [] t = "Content-Length" -> "content-length"
      [] t = "User-Agent" -> "user-agent"
      [] OTHER -> t

\* url.match(/(\?|&)name=([^&]+)/i): << >> when there is no match, else
\* <<[whole |-> match[0], value |-> match[2]]>> for the leftmost match, the
\* group ([^&]+) running up to the next & or the end
regexMatch(text, name) ==
    LET starts == {i \in 1..(Len(text) - 3) :
                      /\ text[i] \in {"?", "&"}
                      /\ toLowerCase(text[i + 1]) = name
                      /\ text[i + 2] = "="
                      /\ text[i + 3] # "&"}
    IN  IF starts = {} THEN << >>
        ELSE LET i == CHOOSE k \in starts : \A o \in starts : k <= o
                 j == CHOOSE k \in (i + 3)..Len(text) :
                         /\ \A x \in (i + 3)..k : text[x] # "&"
                         /\ (k = Len(text) \/ text[k + 1] = "&")
             IN  <<[whole |-> SubSeq(text, i, j), value |-> SubSeq(text, i + 3, j)]>>

\* fault: a URL that does not parse taken as one with an empty hostname
hostnameOf_lenient(text) ==
    IF text[1] \in {"https://", "chrome-extension://"} THEN <<text[2]>> ELSE <<"">>

\* new URL(url).hostname: << >> when the constructor throws
hostnameOf(text) ==
    IF text[1] \in {"https://", "chrome-extension://"} THEN <<text[2]>> ELSE << >>

\* parseInt on the header values of the model: << >> is NaN
parseInt(v) ==
    CASE v = "1000" -> <<1000>>
      [] v = "2000" -> <<2000>>
      [] v = "0" -> <<0>>
      [] v = "5100000" -> <<5100000>>
      [] OTHER -> << >>

\* details.requestHeaders.find(h => h.name.toLowerCase() === 'content-length'),
\* then parseInt(header.value), or 0 without the header
uploadedBytesOf(headers) ==
    LET at == {i \in DOMAIN headers : toLowerCase(headers[i].name) = "content-length"}
    IN  IF at = {} THEN <<0>>
        ELSE parseInt(headers[CHOOSE i \in at : \A o \in at : i <= o].value)

\* Map.get(host) || 0
mapGet(map, host) ==
    LET at == {i \in DOMAIN map : map[i].host = host}
    IN  IF at = {} THEN 0 ELSE map[CHOOSE i \in at : TRUE].bytes

\* Map.set(host, bytes): in place for a known key, appended for a new one
mapSet(map, host, bytes) ==
    IF \E i \in DOMAIN map : map[i].host = host
    THEN [i \in DOMAIN map |->
             IF map[i].host = host THEN [host |-> host, bytes |-> bytes] ELSE map[i]]
    ELSE Append(map, [host |-> host, bytes |-> bytes])

\* fault: the new count stored in place of the sum
addUploadedBytes_overwrite(map, host, uploadedBytes) ==
    IF uploadedBytes # << >> /\ uploadedBytes[1] > 0
    THEN mapSet(map, host, uploadedBytes[1])
    ELSE map

\* fault: a byte count of 0 entered in the Map as well
addUploadedBytes_zeroCounted(map, host, uploadedBytes) ==
    IF uploadedBytes # << >> /\ uploadedBytes[1] >= 0
    THEN mapSet(map, host, mapGet(map, host) + uploadedBytes[1])
    ELSE map

\* 1. Upload Volume Counter
addUploadedBytes(map, host, uploadedBytes) ==
    IF uploadedBytes # << >> /\ uploadedBytes[1] > 0
    THEN mapSet(map, host, mapGet(map, host) + uploadedBytes[1])
    ELSE map

\* the network_anomaly record of a match
affiliateLog(v, text, host, match) ==
    [ type             |-> "network_anomaly",
      detection_source |-> "webRequest_url",
      url              |-> text,
      destination_host |-> host,
      severity         |-> IF v = "js" THEN "high" ELSE "HIGH",
      timestamp        |-> "new Date().toISOString()",
      details          |-> <<"Affiliate tag detected: ">> \o match.whole,
      rewritten_value  |-> match.value ]

RECURSIVE affiliateCheckFrom(_, _, _, _)
\* fault: the break left out
affiliateCheckFrom_noBreak(v, text, host, k) ==
    IF k > Len(AFFILIATE_PATTERNS) THEN << >>
    ELSE (IF regexMatch(text, AFFILIATE_PATTERNS[k]) # << >>
          THEN <<affiliateLog(v, text, host, regexMatch(text, AFFILIATE_PATTERNS[k])[1])>>
          ELSE << >>)
         \o affiliateCheckFrom(v, text, host, k + 1)

\* 2. Anomaly Check: the loop over AFFILIATE_PATTERNS from pattern k on, the
\* records it hands to saveLog
affiliateCheckFrom(v, text, host, k) ==
    IF k > Len(AFFILIATE_PATTERNS) THEN << >>
    ELSE IF regexMatch(text, AFFILIATE_PATTERNS[k]) # << >>
    THEN <<affiliateLog(v, text, host, regexMatch(text, AFFILIATE_PATTERNS[k])[1])>>
    ELSE affiliateCheckFrom(v, text, host, k + 1)

\* fault: the thresholds taken as inclusive
getRiskLevelSimplified_inclusive(m) ==
    LET finalScore == ((m.requestCount * 2) + (m.domainRepScore * 10))
                         * (IF m.obfuscationDetected THEN 2 ELSE 1)
    IN  IF finalScore >= 100 THEN "CRITICAL"
        ELSE IF finalScore >= 50 THEN "HIGH"
        ELSE "LOW"

\* src/src/lib/log-storage.ts, lines 35-54: the simplified getRiskLevel
getRiskLevelSimplified(m) ==
    LET baseScore == (m.requestCount * 2) + (m.domainRepScore * 10)
        obfuscationMultiplier == IF m.obfuscationDetected THEN 2 ELSE 1
        finalScore == baseScore * obfuscationMultiplier
    IN  IF finalScore > 100 THEN "CRITICAL"
        ELSE IF finalScore > 50 THEN "HIGH"
        ELSE "LOW"

\* the metrics logAndResetUploadBytes passes to getRiskLevel
tickMetrics(bytes) ==
    [ requestCount            |-> 0,
      domainRepScore          |-> 5,
      dataExfilSize           |-> bytes,
      uploadFrequency         |-> Undefined,
      obfuscationDetected     |-> FALSE,
      dangerousFunctionCount  |-> Undefined,
      cookieAccessDetected    |-> Undefined,
      isFirstVisit            |-> Undefined,
      userInteractionOccurred |-> Undefined,
      timeOfDay               |-> Undefined,
      domainAge               |-> Undefined ]

\* fault: the threshold taken as 5 * 1000 * 1000
severityOf_decimal(v, bytes) ==
    IF v = "js" THEN (IF bytes > 5 * 1000 * 1000 THEN "warning" ELSE "info")
    ELSE IF v = "ts_weighted" THEN getRiskLevel(tickMetrics(bytes))
    ELSE getRiskLevelSimplified(tickMetrics(bytes))

\* the severity logAndResetUploadBytes gives a host's record
severityOf(v, bytes) ==
    IF v = "js" THEN (IF bytes > 5 * MiB THEN "warning" ELSE "info")
    ELSE IF v = "ts_weighted" THEN getRiskLevel(tickMetrics(bytes))
    ELSE getRiskLevelSimplified(tickMetrics(bytes))

\* fault: bytes_uploaded reported in whole KiB
statisticLog_kib(v, entry) ==
    [ type             |-> "network_statistic_upload",
      detection_source |-> "upload_byte_counter",
      severity         |-> severityOf(v, entry.bytes),
      timestamp        |-> "new Date().toISOString()",
      details          |-> <<"Total bytes uploaded to ", entry.host,
                             " in the last 5s: ", entry.bytes>>,
      host             |-> entry.host,
      bytes_uploaded   |-> (entry.bytes \div 1024) * 1024 ]

\* the record logAndResetUploadBytes hands to saveLog for one entry of the Map
statisticLog(v, entry) ==
    [ type             |-> "network_statistic_upload",
      detection_source |-> "upload_byte_counter",
      severity         |-> severityOf(v, entry.bytes),
      timestamp        |-> "new Date().toISOString()",
      details          |-> <<"Total bytes uploaded to ", entry.host,
                             " in the last 5s: ", entry.bytes>>,
      host             |-> entry.host,
      bytes_uploaded   |-> entry.bytes ]

\* ------------------------------------------------------------------------
\* The aggregator's inputs
\* ------------------------------------------------------------------------
Hosts == {"a.example", "b.example"}
ExtensionId == "extensionid"
ParamNames == {"affiliate_id", "tag", "partner_ref", "ref", "TAG", "q"}
Param(n, v) == [name |-> n, value |-> v]

\* the query strings: no parameter, one, or two (the first possibly empty)
Queries ==
    {<< >>}
    \cup {<<Param(n, v)>> : n \in ParamNames, v \in {"abc123", ""}}
    \cup {<<Param(n1, v), Param(n2, "zzz")>> :
             n1 \in ParamNames \ {"TAG"}, n2 \in ParamNames \ {"TAG"}, v \in {"abc123", ""}}

RECURSIVE queryText(_, _)
\* ?n1=v1&n2=v2 as tokens
queryText(q, sep) ==
    IF q = << >> THEN << >>
    ELSE <<sep, Head(q).name, "=">>
         \o (IF Head(q).value = "" THEN << >> ELSE <<Head(q).value>>)
         \o queryText(Tail(q), "&")

\* a URL as the listener gets it: its text, and what it was built from
Url(scheme, host, q) ==
    [scheme |-> scheme, host |-> host, query |-> q,
     text |-> <<scheme, host, "/">> \o queryText(q, "?")]
InvalidUrl == [scheme |-> "", host |-> "", query |-> << >>, text |-> <<"//">>]
\* //?tag=abc123: no scheme, so new URL throws, yet the tag pattern would match
InvalidUrlTagged ==
    [scheme |-> "", host |-> "", query |-> <<Param("tag", "abc123")>>,
     text |-> <<"//">> \o queryText(<<Param("tag", "abc123")>>, "?")]

Header(n, v) == [name |-> n, value |-> v]
NoLength == <<Header("User-Agent", "ua")>>
WithLength(n, v) == <<Header("User-Agent", "ua"), Header(n, v)>>
HeaderSets ==
    {NoLength, WithLength("content-length", "1000")}
    \cup {WithLength("Content-Length", v) : v \in {"0", "1000", "2000", "abc", "5100000"}}

Request(u, h) == [url |-> u, requestHeaders |-> h]
Requests ==
    {Request(Url("https://", "a.example", q), h) :
        q \in Queries, h \in {NoLength, WithLength("Content-Length", "1000")}}
    \cup {Request(Url("https://", host, << >>), h) : host \in Hosts, h \in HeaderSets}
    \cup {Request(Url("chrome-extension://", ExtensionId, q), WithLength("Content-Length", "1000")) :
             q \in {<< >>, <<Param("tag", "abc123")>>}}
    \cup {Request(InvalidUrl, WithLength("Content-Length", "1000"))}
    \cup {Request(InvalidUrlTagged, WithLength("Content-Length", "1000"))}

\* history: the byte count a request declares, 0 when it declares none
DeclaredBytes(r) ==
    LET ls == {i \in DOMAIN r.requestHeaders :
                  r.requestHeaders[i].name \in {"Content-Length", "content-length"}}
    IN  IF ls = {} THEN 0
        ELSE LET v == r.requestHeaders[CHOOSE i \in ls : TRUE].value
             IN  IF v = "1000" THEN 1000 ELSE IF v = "2000" THEN 2000
                 ELSE IF v = "5100000" THEN 5100000 ELSE 0

AllHosts == Hosts \cup {ExtensionId}
NothingObserved == [h \in AllHosts |-> 0]

RECURSIVE ReportedFor(_, _)
\* history: the bytes_uploaded that the statistic records in logs report for host h
ReportedFor(logs, h) ==
    IF logs = << >> THEN 0
    ELSE (IF Head(logs).type = "network_statistic_upload" /\ Head(logs).host = h
          THEN Head(logs).bytes_uploaded ELSE 0)
         + ReportedFor(Tail(logs), h)

\* ------------------------------------------------------------------------
\* SpecNet: the request listener and the 5-second timer
\* ------------------------------------------------------------------------
InitNet ==
    /\ ScorerIdle
    /\ AnalyzerIdle
    /\ variant \in Variants
    /\ hostUploadBytes = << >>
    /\ request = << >>
    /\ returned = << >>
    /\ lastOp = "none"
    /\ observedSum = NothingObserved
    /\ requests = 0
    /\ unreported = [h \in Hosts |-> 0]
    /\ LogIdle
    /\ emitted = << >>

\* the onBeforeSendHeaders listener, called with request r
Listener(r) ==
    /\ request' = <<r>>
    /\ lastOp' = "observe"
    /\ requests' = requests + 1
    /\ observedSum' =
          IF r.url.host \in AllHosts /\ DeclaredBytes(r) > 0
          THEN [observedSum EXCEPT ![r.url.host] = @ + DeclaredBytes(r)]
          ELSE observedSum
    /\ unreported' =
          IF r.url.host \in Hosts /\ DeclaredBytes(r) > 0
          THEN [unreported EXCEPT ![r.url.host] = @ + DeclaredBytes(r)]
          ELSE unreported
    /\ IF r.url.text[1] = "chrome-extension://"
       THEN \* Ignore internal extension requests
            /\ returned' = IF variant = "js" THEN << >> ELSE <<r.requestHeaders>>
            /\ emitted' = << >>
            /\ UNCHANGED hostUploadBytes
       ELSE IF hostnameOf(r.url.text) = << >>
       THEN \* Return headers even if URL parsing fails
            /\ returned' = <<r.requestHeaders>>
            /\ emitted' = << >>
            /\ UNCHANGED hostUploadBytes
       ELSE LET destinationHost == hostnameOf(r.url.text)[1]
            IN  /\ hostUploadBytes' =
                      addUploadedBytes(hostUploadBytes, destinationHost,
                                       uploadedBytesOf(r.requestHeaders))
                /\ emitted' = affiliateCheckFrom(variant, r.url.text, destinationHost, 1)
                /\ returned' = <<r.requestHeaders>>
    /\ UNCHANGED <<scorerVars, analyzerVars, logVars, variant>>

Observe == requests < MaxRequests /\ \E r \in Requests : Listener(r)

\* fault: one entry saved and removed per run, the rest left for the next run
Tick_partial ==
    /\ lastOp' = "tick"
    /\ request' = << >>
    /\ returned' = << >>
    /\ requests' = 0
    /\ observedSum' = NothingObserved
    /\ IF Len(hostUploadBytes) = 0
       THEN emitted' = << >> /\ UNCHANGED hostUploadBytes
       ELSE /\ emitted' = <<statisticLog(variant, hostUploadBytes[1])>>
            /\ hostUploadBytes' = Tail(hostUploadBytes)
    /\ unreported' = [h \in Hosts |-> unreported[h] - ReportedFor(emitted', h)]
    /\ UNCHANGED <<scorerVars, analyzerVars, logVars, variant>>

\* fault: the Map kept after the records are saved
Tick_noReset ==
    /\ lastOp' = "tick"
    /\ request' = << >>
    /\ returned' = << >>
    /\ requests' = 0
    /\ observedSum' = NothingObserved
    /\ emitted' = [i \in DOMAIN hostUploadBytes |-> statisticLog(variant, hostUploadBytes[i])]
    /\ unreported' = [h \in Hosts |-> unreported[h] - ReportedFor(emitted', h)]
    /\ UNCHANGED <<hostUploadBytes, scorerVars, analyzerVars, logVars, variant>>

\* logAndResetUploadBytes, run by setInterval
Tick ==
    /\ lastOp' = "tick"
    /\ request' = << >>
    /\ returned' = << >>
    /\ requests' = 0
    /\ observedSum' = NothingObserved
    /\ IF Len(hostUploadBytes) = 0
       THEN emitted' = << >> /\ UNCHANGED hostUploadBytes
       ELSE /\ emitted' = [i \in DOMAIN hostUploadBytes |->
                              statisticLog(variant, hostUploadBytes[i])]
            /\ hostUploadBytes' = << >>
    /\ unreported' = [h \in Hosts |-> unreported[h] - ReportedFor(emitted', h)]
    /\ UNCHANGED <<scorerVars, analyzerVars, logVars, variant>>

NextNet == Observe \/ Tick

SpecNet == InitNet /\ [][NextNet]_vars

\* ------------------------------------------------------------------------
\* Properties of the aggregator
\* ------------------------------------------------------------------------
\* the hosts present in the window
WindowHosts(map) == {map[i].host : i \in DOMAIN map}

\* the statistic records among the emitted ones that are about host h
StatisticsFor(logs, h) ==
    {i \in DOMAIN logs : logs[i].type = "network_statistic_upload" /\ logs[i].host = h}

\* C4: after any sequence of requests since the last run of the timer, the
\* next run emits exactly one network_statistic_upload record per host present
\* in the window, with bytes_uploaded the sum of the positive byte counts seen
\* for that host in this window, emits nothing else, and leaves the window
\* empty; a host that declared a positive byte count over https is in the
\* window.
C4_TickFlushesWindowSums ==
    [][ lastOp' = "tick" =>
          /\ \A h \in Hosts : observedSum[h] > 0 => h \in WindowHosts(hostUploadBytes)
          /\ \A h \in WindowHosts(hostUploadBytes) :
                /\ Cardinality(StatisticsFor(emitted', h)) = 1
                /\ \A i \in StatisticsFor(emitted', h) :
                      emitted'[i].bytes_uploaded = observedSum[h]
          /\ \A i \in DOMAIN emitted' :
                /\ emitted'[i].type = "network_statistic_upload"
                /\ emitted'[i].host \in WindowHosts(hostUploadBytes)
          /\ hostUploadBytes' = << >> ]_vars

\* a run of the timer over two hosts, one of them with 1000 and then 2000 bytes
C4_Witness ==
    /\ lastOp = "tick"
    /\ hostUploadBytes = << >>
    /\ Len(emitted) = 2
    /\ \E i \in DOMAIN emitted :
          /\ emitted[i].type = "network_statistic_upload"
          /\ emitted[i].host = "a.example"
          /\ emitted[i].bytes_uploaded = 3000

\* the query carries a parameter of this name (in any case) with a value
Carries(q, name) ==
    \E i \in DOMAIN q : toLowerCase(q[i].name) = name /\ q[i].value # ""

\* the value of the leftmost such parameter
CarriedValue(q, name) ==
    LET at == {i \in DOMAIN q : toLowerCase(q[i].name) = name /\ q[i].value # ""}
    IN  q[CHOOSE i \in at : \A o \in at : i <= o].value

IsHigh(severity) == severity \in {"high", "HIGH"}

\* what the tag-rewrite check owes for the request the listener just handled
TagRewriteOutcome(r) ==
    LET matching == {k \in DOMAIN AFFILIATE_PATTERNS : Carries(r.url.query, AFFILIATE_PATTERNS[k])}
    IN  IF matching = {} THEN emitted = << >>
        ELSE LET first == CHOOSE k \in matching : \A o \in matching : k <= o
             IN  /\ Len(emitted) = 1
                 /\ emitted[1].type = "network_anomaly"
                 /\ IsHigh(emitted[1].severity)
                 /\ emitted[1].rewritten_value =
                       <<CarriedValue(r.url.query, AFFILIATE_PATTERNS[first])>>

UrlParses(r) == r.url.scheme \in {"https://", "chrome-extension://"}
IsInternalExtensionRequest(r) == r.url.scheme = "chrome-extension://"

\* C5 as stated: for every request the listener gets whose URL parses, the
\* first pattern in the order affiliate_id, tag, partner_ref, ref that matches
\* gives exactly one network_anomaly record of high severity with that
\* parameter's value, emitted by the listener itself, and no match gives none.
C5_EveryParsedUrlIsTested ==
    (lastOp = "observe" /\ UrlParses(request[1])) => TagRewriteOutcome(request[1])

\* C5: for every request the listener gets that is not an internal extension
\* request (its URL does not start with chrome-extension://) and whose URL
\* parses, the first pattern in the order affiliate_id, tag, partner_ref, ref
\* that matches gives exactly one network_anomaly record of high severity with
\* that parameter's value, emitted by the listener itself whether or not
\* bytes were counted, later patterns give no record, and no match gives
\* none; an internal extension request gives no record.
C5_FirstMatchingPatternOnly ==
    lastOp = "observe" =>
       /\ (UrlParses(request[1]) /\ ~IsInternalExtensionRequest(request[1]))
             => TagRewriteOutcome(request[1])
       /\ IsInternalExtensionRequest(request[1]) => emitted = << >>

\* a request with ?ref=abc123&tag=zzz and no declared bytes: the record is
\* the one of tag, the earlier pattern
C5_Witness ==
    /\ lastOp = "observe"
    /\ request[1].url.query = <<Param("ref", "abc123"), Param("tag", "zzz")>>
    /\ request[1].requestHeaders = NoLength
    /\ hostUploadBytes = << >>
    /\ Len(emitted) = 1
    /\ emitted[1].rewritten_value = <<"zzz">>

\* C11: when the URL of a request cannot be parsed, the listener returns the
\* request's headers as they came, leaves the window map as it was, and
\* emits no record of any kind.
C11_UnparsableUrlPassesThrough ==
    [][ (lastOp' = "observe" /\ ~UrlParses(request'[1])) =>
          /\ returned' = <<request'[1].requestHeaders>>
          /\ hostUploadBytes' = hostUploadBytes
          /\ emitted' = << >> ]_vars

\* //?tag=abc123 with Content-Length 1000, met with totals already in the window
C11_Witness ==
    /\ lastOp = "observe"
    /\ request[1].url = InvalidUrlTagged
    /\ DeclaredBytes(request[1]) = 1000
    /\ returned = <<request[1].requestHeaders>>
    /\ hostUploadBytes = <<[host |-> "a.example", bytes |-> 2000]>>
    /\ emitted = << >>

\* C12: a run of the timer on an empty window emits no record and leaves the
\* window empty; so a run with no positive byte count seen for any https host
\* since the previous run (or since the start) emits nothing.
C12_TickOnEmptyWindowIsNoOp ==
    [][ /\ (lastOp' = "tick" /\ hostUploadBytes = << >>)
              => (emitted' = << >> /\ hostUploadBytes' = << >>)
        /\ (lastOp' = "tick" /\ \A h \in Hosts : observedSum[h] = 0)
              => (emitted' = << >> /\ hostUploadBytes' = << >>) ]_vars

\* a run of the timer that found the window empty
C12_Witness ==
    /\ lastOp = "tick"
    /\ emitted = << >>
    /\ hostUploadBytes = << >>
    /\ requests = 0

\* C13: in every interleaving of listener calls and runs of the timer, the
\* window map seen between two callbacks holds exactly the totals accumulated
\* since the last run of the timer (every https host with a positive total,
\* at that total), and it is empty right after a run: no state has some hosts
\* of a window flushed and others not.
C13_WindowCompleteOrEmpty ==
    /\ \A h \in Hosts :
          /\ mapGet(hostUploadBytes, h) = observedSum[h]
          /\ h \in WindowHosts(hostUploadBytes) <=> observedSum[h] > 0
    /\ WindowHosts(hostUploadBytes) \subseteq Hosts
    /\ lastOp = "tick" => hostUploadBytes = << >>

\* a run of the timer that flushed both hosts and left nothing behind
C13_Witness ==
    /\ lastOp = "tick"
    /\ {emitted[i].host : i \in DOMAIN emitted} = Hosts
    /\ hostUploadBytes = << >>

\* the value is a Map from hosts to positive totals: one entry per host
IsMap(map) ==
    /\ \A i \in DOMAIN map : map[i].host \in AllHosts /\ map[i].bytes \in Nat \ {0}
    /\ \A i, j \in DOMAIN map : map[i].host = map[j].host => i = j

\* C14: between two runs of the timer no host's total decreases and no host
\* leaves the window; the map changes only by the listener adding a positive
\* amount to one host, or by the timer replacing it with an empty map; and
\* the variable always holds a map.
C14_WindowMonotoneWithinWindow ==
    /\ IsMap(hostUploadBytes)
    /\ [][ /\ IsMap(hostUploadBytes')
           /\ lastOp' = "observe" =>
                 \A h \in WindowHosts(hostUploadBytes) :
                    /\ h \in WindowHosts(hostUploadBytes')
                    /\ mapGet(hostUploadBytes', h) >= mapGet(hostUploadBytes, h)
           /\ hostUploadBytes' # hostUploadBytes =>
                 \/ lastOp' = "tick" /\ hostUploadBytes' = << >>
                 \/ /\ lastOp' = "observe"
                    /\ \E h \in AllHosts :
                          /\ mapGet(hostUploadBytes', h) > mapGet(hostUploadBytes, h)
                          /\ \A g \in AllHosts \ {h} :
                                /\ mapGet(hostUploadBytes', g) = mapGet(hostUploadBytes, g)
                                /\ g \in WindowHosts(hostUploadBytes')
                                      <=> g \in WindowHosts(hostUploadBytes) ]_vars

\* 1000 to a.example, 1000 to b.example, then 2000 more to a.example
C14_Witness ==
    /\ lastOp = "observe"
    /\ hostUploadBytes = <<[host |-> "a.example", bytes |-> 3000],
                           [host |-> "b.example", bytes |-> 1000]>>
    /\ DeclaredBytes(request[1]) = 2000

\* ------------------------------------------------------------------------
\* SpecSimplified: the simplified getRiskLevel of src/src/lib/log-storage.ts
\* applied to one metrics value
\* ------------------------------------------------------------------------
SimplifiedMetrics ==
    [ requestCount        : {0, 15, 20, 25, 26, 35, 36, 50, 51},
      domainRepScore      : 0..10,
      obfuscationDetected : BOOLEAN,
      dataExfilSize       : {0, 50} ]

InitSimplified ==
    /\ metrics \in SimplifiedMetrics
    /\ context = << >>
    /\ level = << >>
    /\ calls = 0
    /\ AnalyzerIdle
    /\ NetIdle
    /\ LogIdle
    /\ emitted = << >>

GetRiskLevelSimplified ==
    /\ level = << >>
    /\ level' = <<getRiskLevelSimplified(metrics)>>
    /\ UNCHANGED <<metrics, context, calls, analyzerVars, netVars, logVars, emitted>>

NextSimplified == GetRiskLevelSimplified

SpecSimplified == InitSimplified /\ [][NextSimplified]_vars

\* final = (requestCount * 2 + domainRepScore * 10) * (2 if obfuscated else 1)
FinalOf(m) ==
    (m.requestCount * 2 + m.domainRepScore * 10) * (IF m.obfuscationDetected THEN 2 ELSE 1)

\* C15: the simplified getRiskLevel returns CRITICAL when final > 100, HIGH
\* when 50 < final <= 100 and LOW otherwise, for final = (requestCount * 2 +
\* domainRepScore * 10) * (2 if obfuscationDetected else 1); requestCount 15
\* and domainRepScore 3 give 60 and HIGH without obfuscation, 120 and
\* CRITICAL with it.
C15_SimplifiedRiskLevel ==
    level # << >> =>
        /\ level[1] = "CRITICAL" <=> FinalOf(metrics) > 100
        /\ level[1] = "HIGH" <=> (FinalOf(metrics) > 50 /\ FinalOf(metrics) <= 100)
        /\ level[1] = "LOW" <=> FinalOf(metrics) <= 50
        /\ (metrics.requestCount = 15 /\ metrics.domainRepScore = 3) =>
              IF metrics.obfuscationDetected
              THEN FinalOf(metrics) = 120 /\ level[1] = "CRITICAL"
              ELSE FinalOf(metrics) = 60 /\ level[1] = "HIGH"

\* the scenario with obfuscation: 120, CRITICAL
C15_Witness ==
    /\ level = <<"CRITICAL">>
    /\ metrics.requestCount = 15 /\ metrics.domainRepScore = 3
    /\ metrics.obfuscationDetected

\* ------------------------------------------------------------------------
\* Further properties of the scorer
\* ------------------------------------------------------------------------
OptionalFields ==
    {"uploadFrequency", "dangerousFunctionCount", "cookieAccessDetected", "isFirstVisit",
     "userInteractionOccurred", "timeOfDay", "domainAge"}

\* the metrics with one optional field left out
Without(m, f) == [m EXCEPT ![f] = Undefined]

LevelRank(l) ==
    CASE l = "LOW" -> 0 [] l = "MEDIUM" -> 1 [] l = "HIGH" -> 2 [] l = "CRITICAL" -> 3

\* C16: leaving out one optional field that was present makes analyzeContext
\* return a lower confidence, no higher sub-score, combinedScore or risk
\* level, and no threat vector that was not there with the field present.
C16_AbsenceOnlyReducesConfidence ==
    calls >= 1 =>
        \A f \in OptionalFields :
            IsDefined(metrics[f]) =>
                LET with == context[1]
                    without == analyzeContext(Without(metrics, f))
                IN  /\ without.confidence < with.confidence
                    /\ without.behavioralScore <= with.behavioralScore
                    /\ without.temporalScore <= with.temporalScore
                    /\ without.structuralScore <= with.structuralScore
                    /\ without.combinedScore <= with.combinedScore
                    /\ LevelRank(riskLevelOf(without.combinedScore))
                          <= LevelRank(riskLevelOf(with.combinedScore))
                    /\ \A i \in DOMAIN without.threatVector :
                          \E j \in DOMAIN with.threatVector :
                             with.threatVector[j] = without.threatVector[i]

\* the weights of the optional fields, in tenths
OptionalWeight(f) ==
    CASE f = "uploadFrequency" -> 8
      [] f = "dangerousFunctionCount" -> 8
      [] f = "cookieAccessDetected" -> 8
      [] f = "isFirstVisit" -> 6
      [] f = "userInteractionOccurred" -> 6
      [] f = "timeOfDay" -> 4
      [] f = "domainAge" -> 7

RECURSIVE WeightOf(_)
\* the sum of the weights of the optional fields in S
WeightOf(S) ==
    IF S = {} THEN 0
    ELSE LET f == CHOOSE x \in S : TRUE IN OptionalWeight(f) + WeightOf(S \ {f})

PresentFields(m) == {f \in OptionalFields : IsDefined(m[f])}

\* n / d as a percentage, rounded to the nearest integer
RoundedPercent(n, d) ==
    CHOOSE p \in 0..100 : (2 * p - 1) * d <= 200 * n /\ 200 * n < (2 * p + 1) * d

\* a value for an optional field that is absent
SomeValue(f) ==
    IF f \in {"cookieAccessDetected", "isFirstVisit", "userInteractionOccurred"}
    THEN Some(TRUE) ELSE Some(3)

\* the confidence is 100 exactly with every optional field present, and
\* supplying an absent optional field never lowers it
ConfidenceCompleteAndMonotone ==
    /\ context[1].confidence = 100 <=> PresentFields(metrics) = OptionalFields
    /\ \A f \in OptionalFields \ PresentFields(metrics) :
          analyzeContext([metrics EXCEPT ![f] = SomeValue(f)]).confidence
             >= context[1].confidence

\* C17 as stated: the confidence is the rounded percentage of the total
\* weight that the present fields contribute, the weights being 1.0 for
\* requestCount, domainRepScore and dataExfilSize and 0.8, 0.8, 0.8, 0.6, 0.6,
\* 0.4, 0.7 for the optional fields (7.7 in all).
C17_ConfidenceOverListedWeights ==
    calls >= 1 =>
        /\ context[1].confidence =
              RoundedPercent(3 * 10 + WeightOf(PresentFields(metrics)),
                             3 * 10 + WeightOf(OptionalFields))
        /\ ConfidenceCompleteAndMonotone

\* C17: the confidence is the rounded percentage of the total weight that the
\* present fields contribute, the weights being 1.0 for each of the four
\* fields that are always present (requestCount, domainRepScore,
\* dataExfilSize, obfuscationDetected) and 0.8, 0.8, 0.8, 0.6, 0.6, 0.4, 0.7
\* for the optional fields (8.7 in all); it is 100 exactly when every optional
\* field is present, and supplying an optional field never lowers it.
C17_ConfidenceWeightedFraction ==
    calls >= 1 =>
        /\ context[1].confidence =
              RoundedPercent(4 * 10 + WeightOf(PresentFields(metrics)),
                             4 * 10 + WeightOf(OptionalFields))
        /\ ConfidenceCompleteAndMonotone

\* no optional field present: 4.0 of 8.7, 46 per cent
C17_Witness ==
    /\ calls >= 1
    /\ PresentFields(metrics) = {}
    /\ context[1].confidence = 46

\* the tags in their fixed order
ThreatTags ==
    <<"DATA_EXFILTRATION", "OBFUSCATED_MALWARE", "SESSION_HIJACKING",
      "BACKGROUND_BEACON", "ZERO_DAY_ATTACK", "RAPID_EXFIL">>

\* the condition of each tag on the metrics; "no interaction" is that the
\* metrics record no user interaction (the field false or absent)
TagCondition(tag, m) ==
    CASE tag = "DATA_EXFILTRATION" -> m.dataExfilSize > 5 * 1024 * 1024
      [] tag = "OBFUSCATED_MALWARE" ->
            /\ m.obfuscationDetected
            /\ m.dangerousFunctionCount # << >>
            /\ m.dangerousFunctionCount[1] > 5
      [] tag = "SESSION_HIJACKING" ->
            m.cookieAccessDetected = <<TRUE>> /\ m.dataExfilSize > 0
      [] tag = "BACKGROUND_BEACON" ->
            m.userInteractionOccurred # <<TRUE>> /\ m.requestCount > 10
      [] tag = "ZERO_DAY_ATTACK" ->
            /\ m.isFirstVisit = <<TRUE>>
            /\ (m.requestCount > 20 \/ m.dataExfilSize > 1024 * 1024)
      [] tag = "RAPID_EXFIL" ->
            m.uploadFrequency # << >> /\ m.uploadFrequency[1] > 15

\* C18: the threat vectors of analyzeContext are exactly the tags whose
\* condition holds on the metrics, each once, in the order DATA_EXFILTRATION,
\* OBFUSCATED_MALWARE, SESSION_HIJACKING, BACKGROUND_BEACON, ZERO_DAY_ATTACK,
\* RAPID_EXFIL; the conditions read the metrics only, not the scores.
C18_ThreatVectorsExactAndOrdered ==
    calls >= 1 =>
        LET v == context[1].threatVector
            pos(tag) == CHOOSE k \in DOMAIN ThreatTags : ThreatTags[k] = tag
        IN  /\ \A k \in DOMAIN ThreatTags :
                  Cardinality({i \in DOMAIN v : v[i] = ThreatTags[k]})
                     = IF TagCondition(ThreatTags[k], metrics) THEN 1 ELSE 0
            /\ \A i \in DOMAIN v : \E k \in DOMAIN ThreatTags : v[i] = ThreatTags[k]
            /\ \A i, j \in DOMAIN v : i < j => pos(v[i]) < pos(v[j])

\* all six tags at once
C18_Witness ==
    /\ calls >= 1
    /\ context[1].threatVector = ThreatTags

\* ------------------------------------------------------------------------
\* Further properties of the analyzer
\* ------------------------------------------------------------------------
RECURSIVE ChildrenOf(_)
\* the child nodes held by a node's properties, in key order
ChildrenOf(fields) ==
    IF fields = << >> THEN << >> ELSE Head(fields).kids \o ChildrenOf(Tail(fields))

\* the number of rules that match at node n itself
RulesMatchingAt(n) ==
    (IF IsDangerousCall(n) THEN 1 ELSE 0) + (IF IsObfuscation(n) THEN 1 ELSE 0)
    + (IF IsCookieWrite(n) THEN 1 ELSE 0)

RECURSIVE MatchesIn(_)
RECURSIVE MatchesInAll(_)
\* the number of (node, rule) matches in the tree below (and including) n
MatchesIn(n) == RulesMatchingAt(n) + MatchesInAll(ChildrenOf(n.fields))
MatchesInAll(ns) ==
    IF ns = << >> THEN 0 ELSE MatchesIn(Head(ns)) + MatchesInAll(Tail(ns))

\* a script_anomaly record about this line whose details hold this text
Reported(line, text) ==
    \E i \in DOMAIN emitted :
       /\ emitted[i].type = "script_anomaly"
       /\ emitted[i].line_number = line
       /\ text \in Range(emitted[i].details)

\* C19: on a script that parses, the verdict is true exactly if some rule
\* matched at some node, every (node, rule) match has its script_anomaly
\* finding, and the findings are as many as the matches: none is suppressed
\* and nothing else is emitted.
C19_VerdictIsOrAndOneFindingPerMatch ==
    (Scanned /\ script.ok) =>
        /\ verdict = <<TRUE>> <=> MatchesIn(script.ast) > 0
        /\ Len(emitted) = MatchesIn(script.ast)
        /\ \A i \in DOMAIN emitted : emitted[i].type = "script_anomaly"
        /\ \A n \in NodesOf(script.ast) :
              /\ IsDangerousCall(n) => Reported(n.line, Prop(n, "callee").name)
              /\ IsObfuscation(n) => Reported(n.line, Prop(n, "property").name)
              /\ IsCookieWrite(n) => Reported(n.line, "Writes to document.cookie")

\* x.cookie = eval() and then x.replace: three matches, one of each rule
C19_Witness ==
    /\ Scanned /\ script.ok
    /\ MatchesIn(script.ast) = 3
    /\ Len(emitted) = 3
    /\ \E n \in NodesOf(script.ast) : IsDangerousCall(n)
    /\ \E n \in NodesOf(script.ast) : IsObfuscation(n)
    /\ \E n \in NodesOf(script.ast) : IsCookieWrite(n)

\* the assignments of the script, and those that write to a property named cookie
AssignmentsOf(ast) == {n \in NodesOf(ast) : n.type = "AssignmentExpression"}
WritesCookieProperty(n) ==
    /\ Prop(n, "left").type = "MemberExpression"
    /\ Prop(Prop(n, "left"), "property").name = "cookie"
CookieFindings == {i \in DOMAIN emitted : "Writes to document.cookie" \in Range(emitted[i].details)}

\* C20: every assignment whose left-hand side is a member access whose
\* property node is named cookie gets a cookie-write finding on its line and
\* makes the verdict true, whatever the object; an assignment whose
\* left-hand side is no member access, or a member access with another
\* property, gets none.
C20_CookieWriteByPropertyName ==
    (Scanned /\ script.ok) =>
        /\ \A n \in AssignmentsOf(script.ast) :
              IF WritesCookieProperty(n)
              THEN /\ verdict = <<TRUE>>
                   /\ \E i \in CookieFindings :
                         /\ emitted[i].type = "script_anomaly"
                         /\ emitted[i].line_number = n.line
              ELSE \A i \in CookieFindings : emitted[i].line_number # n.line
        /\ Cardinality(CookieFindings)
              = Cardinality({n \in AssignmentsOf(script.ast) : WritesCookieProperty(n)})

\* x.cookie = ... reported, next to an assignment to a variable named cookie
C20_Witness ==
    /\ Scanned /\ script.ok
    /\ \E n \in AssignmentsOf(script.ast) :
          WritesCookieProperty(n) /\ Prop(Prop(n, "left"), "object").name = "x"
    /\ \E n \in AssignmentsOf(script.ast) :
          Prop(n, "left").type = "Identifier" /\ Prop(n, "left").name = "cookie"
    /\ Cardinality(CookieFindings) = 1

\* ------------------------------------------------------------------------
\* Further properties of the aggregator
\* ------------------------------------------------------------------------
\* C21: in threshold mode the record of a host has severity warning exactly
\* when that host's bytes exceed 5 * 1024 * 1024, and info otherwise, whatever
\* the totals of the other hosts.
C21_ThresholdSeverity ==
    (lastOp = "tick" /\ variant = "js") =>
        \A i \in DOMAIN emitted :
            emitted[i].severity =
                IF emitted[i].bytes_uploaded > 5 * 1024 * 1024 THEN "warning" ELSE "info"

\* one run of the timer: 10200000 bytes for one host (warning) and 5100000,
\* between 5 * 1000 * 1000 and 5 MiB, for the other (info)
C21_Witness ==
    /\ lastOp = "tick" /\ variant = "js"
    /\ \E i, j \in DOMAIN emitted :
          /\ emitted[i].bytes_uploaded = 10200000 /\ emitted[i].severity = "warning"
          /\ emitted[j].bytes_uploaded = 5100000 /\ emitted[j].severity = "info"

C25_ScorerSeverityReflectsVolume ==
    (lastOp = "tick" /\ variant \in {"ts_weighted", "ts_simplified"}) =>
        \A i \in DOMAIN emitted :
            emitted[i].bytes_uploaded > 5 * 1024 * 1024 => emitted[i].severity # "LOW"

\* ------------------------------------------------------------------------
\* SpecTiers: the scorer applied to values on both sides of every tier
\* boundary of the three sub-scores, and to values off the documented ranges
\* ------------------------------------------------------------------------
\* the fields a sub-score does not read, at the values the aggregator passes
\* (network-monitor.ts lines 162-167) and every optional field absent
PlainMetrics ==
    [ requestCount            |-> 0,
      domainRepScore          |-> 5,
      dataExfilSize           |-> 0,
      uploadFrequency         |-> Undefined,
      obfuscationDetected     |-> FALSE,
      dangerousFunctionCount  |-> Undefined,
      cookieAccessDetected    |-> Undefined,
      isFirstVisit            |-> Undefined,
      userInteractionOccurred |-> Undefined,
      timeOfDay               |-> Undefined,
      domainAge               |-> Undefined ]

\* the fields calculateBehavioralScore reads
BehavioralCases ==
    { [PlainMetrics EXCEPT !.requestCount = r, !.dataExfilSize = e,
                           !.uploadFrequency = u, !.domainRepScore = d] :
        r \in {-1, 0, 10, 11, 20, 21, 50, 51},
        e \in {0, MiB, MiB + 1, 5 * MiB, 5 * MiB + 1, 10 * MiB, 10 * MiB + 1},
        u \in {Undefined, Some(0), Some(5), Some(6), Some(10), Some(11)},
        d \in {-2, 0, 5, 10, 14} }

\* the fields calculateTemporalScore reads
TemporalCases ==
    { [PlainMetrics EXCEPT !.requestCount = r, !.dataExfilSize = e,
                           !.isFirstVisit = f, !.userInteractionOccurred = u,
                           !.timeOfDay = t, !.domainAge = a] :
        r \in {-1, 0, 1, 5, 6, 20, 21},
        e \in {MiB, MiB + 1},
        f \in {Undefined, Some(FALSE), Some(TRUE)},
        u \in {Undefined, Some(FALSE), Some(TRUE)},
        t \in {Undefined, Some(1), Some(2), Some(5), Some(6)},
        a \in {Undefined, Some(0), Some(6), Some(7), Some(29), Some(30)} }

\* the fields calculateStructuralScore reads
StructuralCases ==
    { [PlainMetrics EXCEPT !.obfuscationDetected = o, !.dangerousFunctionCount = c,
                           !.cookieAccessDetected = k] :
        o \in BOOLEAN,
        c \in {Undefined, Some(-1), Some(0), Some(1), Some(5), Some(6),
                Some(10), Some(11)},
        k \in {Undefined, Some(FALSE), Some(TRUE)} }

TierMetrics == BehavioralCases \cup TemporalCases \cup StructuralCases

InitTiers ==
    /\ metrics \in TierMetrics
    /\ context = << >>
    /\ level = << >>
    /\ calls = 0
    /\ AnalyzerIdle
    /\ NetIdle
    /\ LogIdle
    /\ emitted = << >>

SpecTiers == InitTiers /\ [][NextScore]_vars

\* ------------------------------------------------------------------------
\* The three sub-score formulas (checked under SpecTiers)
\* ------------------------------------------------------------------------
\* the tier of a value in a descending table of <<bound, points>> pairs: the
\* points of the first bound the value exceeds, 0 when it exceeds none
RECURSIVE TierOf(_, _)
TierOf(v, table) ==
    IF table = << >> THEN 0
    ELSE IF v > table[1][1] THEN table[1][2]
    ELSE TierOf(v, Tail(table))

\* a number in half points
Half(n) == 2 * n

\* C26: behavioralScore is min(100, request-count tier + exfil tier on the
\* size in MiB + upload-frequency tier (0 when absent) + (10 - domainRepScore)
\* * 2.5), one tier of each group.
C26_BehavioralFormula ==
    context # << >> =>
        LET m == metrics
            requestTier == TierOf(m.requestCount, <<<<50, 30>>, <<20, 20>>, <<10, 10>>>>)
            exfilTier == TierOf(m.dataExfilSize,
                                <<<<10 * MiB, 25>>, <<5 * MiB, 18>>, <<MiB, 10>>>>)
            uploadTier == IF m.uploadFrequency = Undefined THEN 0
                          ELSE TierOf(m.uploadFrequency[1], <<<<10, 20>>, <<5, 12>>>>)
            \* (10 - domainRepScore) * 2.5 = (10 - domainRepScore) * 5 halves
            reputation == (10 - m.domainRepScore) * 5
            total == Half(requestTier + exfilTier + uploadTier) + reputation
        IN  context[1].behavioralScore = (IF total > Half(100) THEN Half(100) ELSE total)

\* the middle tier of every group has been scored: 20 + 18 + 12 + 12.5
C26_Witness ==
    /\ context # << >>
    /\ metrics.requestCount = 21 /\ metrics.dataExfilSize = 5 * MiB + 1
    /\ metrics.uploadFrequency = Some(6) /\ metrics.domainRepScore = 5
    /\ context[1].behavioralScore = 125

\* C27: temporalScore is min(100, first-visit terms + no-interaction term +
\* time-of-day term + domain-age tier), and a term is added only when the
\* optional metric it depends on was supplied and satisfies the condition.
C27_TemporalFormula ==
    context # << >> =>
        LET m == metrics
            firstVisit == IF m.isFirstVisit = Some(TRUE)
                          THEN (IF m.requestCount > 20 THEN 25 ELSE 0)
                               + (IF m.dataExfilSize > MiB THEN 20 ELSE 0)
                          ELSE 0
            noInteraction == IF m.userInteractionOccurred = Some(FALSE)
                             THEN TierOf(m.requestCount, <<<<5, 30>>, <<0, 15>>>>)
                             ELSE 0
            unusualHour == IF m.timeOfDay # Undefined /\ m.timeOfDay[1] \in 2..5
                           THEN 20 ELSE 0
            age == IF m.domainAge = Undefined THEN 0
                   ELSE IF m.domainAge[1] = 0 THEN 30
                   ELSE IF m.domainAge[1] < 7 THEN 20
                   ELSE IF m.domainAge[1] < 30 THEN 10 ELSE 0
            total == firstVisit + noInteraction + unusualHour + age
        IN  context[1].temporalScore = Half(IF total > 100 THEN 100 ELSE total)

\* C28: structuralScore is 40 for obfuscation + the dangerous-function-count
\* tier + 30 for cookie access; it never exceeds 100 and is 0 when none of
\* the three signals is set.
C28_StructuralFormula ==
    context # << >> =>
        LET m == metrics
            obfuscation == IF m.obfuscationDetected THEN 40 ELSE 0
            dangerous == IF m.dangerousFunctionCount = Undefined THEN 0
                         ELSE TierOf(m.dangerousFunctionCount[1],
                                     <<<<10, 30>>, <<5, 20>>, <<0, 10>>>>)
            cookie == IF m.cookieAccessDetected = Some(TRUE) THEN 30 ELSE 0
            noSignal == /\ ~m.obfuscationDetected
                        /\ (m.dangerousFunctionCount = Undefined
                              \/ m.dangerousFunctionCount[1] <= 0)
                        /\ m.cookieAccessDetected # Some(TRUE)
        IN  /\ context[1].structuralScore = Half(obfuscation + dangerous + cookie)
            /\ context[1].structuralScore <= Half(100)
            /\ noSignal => context[1].structuralScore = 0

\* the maximum has been reached, with all three signals at their top
C28_Witness ==
    /\ context # << >>
    /\ metrics.obfuscationDetected
    /\ metrics.dangerousFunctionCount = Some(11)
    /\ metrics.cookieAccessDetected = Some(TRUE)
    /\ context[1].structuralScore = Half(100)

\* C29: the three sub-scores analyzeContext returns lie in [0,100] for every
\* metrics value, on or off the documented ranges.
C29_SubScoresClamped ==
    context # << >> =>
        /\ context[1].behavioralScore \in 0..Half(100)
        /\ context[1].temporalScore \in 0..Half(100)
        /\ context[1].structuralScore \in 0..Half(100)

\* ------------------------------------------------------------------------
\* src/src/lib/log-storage.ts : saveLog
\* ------------------------------------------------------------------------
\* saveLog calls that may be made
MaxSaves == 2
\* how far the clock runs
MaxClock == 2

\* new Date().toISOString() at instant t: a string denoting t
IsoString(t) == [kind |-> "iso", at |-> t]
\* Date.now() at instant t: a number
Millis(t) == [kind |-> "ms", at |-> t]

\* Array.isArray(currentLogs) ? currentLogs : []
logsArrayOf(currentLogs) ==
    IF currentLogs = Undefined THEN << >> ELSE currentLogs[1]

\* fault: the spread written after the timestamp, { timestamp: Date.now(),
\* ...newLogEntry }, so that a timestamp of the caller wins
fullLogOf_callerWins(newLogEntry, t) ==
    [f \in DOMAIN newLogEntry \cup {"timestamp"} |->
        IF f \in DOMAIN newLogEntry THEN newLogEntry[f] ELSE Millis(t)]

\* { ...newLogEntry, timestamp: Date.now() }
fullLogOf(newLogEntry, t) ==
    [f \in DOMAIN newLogEntry \cup {"timestamp"} |->
        IF f = "timestamp" THEN Millis(t) ELSE newLogEntry[f]]

\* [fullLog, ...logsArray]
updatedLogsOf(newLogEntry, currentLogs, t) ==
    <<fullLogOf(newLogEntry, t)>> \o logsArrayOf(currentLogs)

\* the records the callers hand over: the statistic records of a run of the
\* timer (network-monitor.ts lines 170-178), a finding of the analyzer
\* (part_003 lines 27-38), and a record without a timestamp of its own
LogEntries ==
    { [type |-> "network_statistic_upload", host |-> "a.example",
       bytes_uploaded |-> 1000, timestamp |-> IsoString(0)],
      [type |-> "network_statistic_upload", host |-> "b.example",
       bytes_uploaded |-> 2000, timestamp |-> IsoString(0)],
      [type |-> "script_anomaly", script_id |-> "s1", line_number |-> 1] }

\* a record saved before
OlderRecord ==
    [type |-> "script_anomaly", script_id |-> "s0", line_number |-> 7,
     timestamp |-> Millis(0)]

\* what chrome.storage.local holds under security_logs to begin with
StoredBefore == {Undefined, Some(<< >>), Some(<<OlderRecord>>)}

InitLog ==
    /\ ScorerIdle
    /\ AnalyzerIdle
    /\ NetIdle
    /\ emitted = << >>
    /\ stored \in StoredBefore
    /\ saves = << >>
    /\ now = 0

\* saveLog(entry) is called: it runs up to its first await, with the get
\* request issued
CallSaveLog(entry) ==
    /\ Len(saves) < MaxSaves
    /\ saves' = Append(saves, [entry |-> entry, pc |-> "get", calledAt |-> now,
                               logsArray |-> << >>, updatedLogs |-> << >>])
    /\ UNCHANGED <<stored, now, scorerVars, analyzerVars, netVars, emitted>>

\* the get of call i resolves: lines 6-9 run, up to the second await, with the
\* set request issued
GetResolves(i) ==
    /\ saves[i].pc = "get"
    /\ saves' = [saves EXCEPT ![i].pc = "set",
                              ![i].logsArray = logsArrayOf(stored),
                              ![i].updatedLogs =
                                  updatedLogsOf(saves[i].entry, stored, now)]
    /\ UNCHANGED <<stored, now, scorerVars, analyzerVars, netVars, emitted>>

\* the set of call i takes effect and its promise resolves: saveLog returns
SetResolves(i) ==
    /\ saves[i].pc = "set"
    /\ stored' = Some(saves[i].updatedLogs)
    /\ saves' = [saves EXCEPT ![i].pc = "done"]
    /\ UNCHANGED <<now, scorerVars, analyzerVars, netVars, emitted>>

\* time passes
TimePasses ==
    /\ now < MaxClock
    /\ now' = now + 1
    /\ UNCHANGED <<stored, saves, scorerVars, analyzerVars, netVars, emitted>>

Save == \E entry \in LogEntries : CallSaveLog(entry)

Read == \E i \in DOMAIN saves : GetResolves(i)

Write == \E i \in DOMAIN saves : SetResolves(i)

NextLog == Save \/ Read \/ Write \/ TimePasses

SpecLog == InitLog /\ [][NextLog]_vars

\* ------------------------------------------------------------------------
\* Properties of saveLog (checked under SpecLog)
\* ------------------------------------------------------------------------
\* record r is entry e as the sink stores it: the fields of e other than
\* timestamp, unchanged, and a timestamp
StoredFormOf(r, e) ==
    /\ DOMAIN r = DOMAIN e \cup {"timestamp"}
    /\ \A f \in DOMAIN e \ {"timestamp"} : r[f] = e[f]

C23_NoRecordLost ==
    (\A i \in DOMAIN saves : saves[i].pc = "done") =>
        \A i \in DOMAIN saves :
            \E k \in DOMAIN logsArrayOf(stored) :
                StoredFormOf(logsArrayOf(stored)[k], saves[i].entry)


\* ------------------------------------------------------------------------
\* The order of the traversal (checked under SpecScan)
\* ------------------------------------------------------------------------
RECURSIVE PreOrder(_)
RECURSIVE PreOrderAll(_)
\* the nodes of the tree below (and including) n, each once, a node before
\* the nodes below it and these in the order of the properties holding them
PreOrder(n) == <<n>> \o PreOrderAll(ChildrenOf(n.fields))
PreOrderAll(ns) ==
    IF ns = << >> THEN << >> ELSE PreOrder(Head(ns)) \o PreOrderAll(Tail(ns))

\* what the three rules, applied once to node n in the order dangerous call,
\* obfuscation, cookie write, report: the line and the name reported
FindingsAt(n) ==
    (IF IsDangerousCall(n)
     THEN <<[line |-> n.line, about |-> Prop(n, "callee").name]>> ELSE << >>)
    \o (IF IsObfuscation(n)
        THEN <<[line |-> n.line, about |-> Prop(n, "property").name]>> ELSE << >>)
    \o (IF IsCookieWrite(n)
        THEN <<[line |-> n.line, about |-> "Writes to document.cookie"]>> ELSE << >>)

RECURSIVE FindingsAlong(_)
FindingsAlong(ns) ==
    IF ns = << >> THEN << >> ELSE FindingsAt(Head(ns)) \o FindingsAlong(Tail(ns))

\* C30: on a script that parses the traversal ends and
\* scanScriptForAnomalies returns; the findings it emitted are, in this order,
\* those of the three rules applied in the order dangerous call, obfuscation,
\* cookie write to every node of the tree once, a parent before its children,
\* through single-child properties and sequences alike; properties that hold
\* no node add nothing and do not fail.
C30_EveryNodeOnceParentFirst ==
    (Scanned /\ script.ok) =>
        LET want == FindingsAlong(PreOrder(script.ast))
        IN  /\ ~raised
            /\ Range(PreOrder(script.ast)) = NodesOf(script.ast)
            /\ Len(emitted) = Len(want)
            /\ \A i \in DOMAIN want :
                  /\ emitted[i].type = "script_anomaly"
                  /\ emitted[i].line_number = want[i].line
                  /\ want[i].about \in Range(emitted[i].details)

\* setTimeout(eval(atob(x))) has been scanned: the call of setTimeout on line
\* 1 is reported before the call of eval in its arguments, and that before
\* the call of atob in the arguments of eval
C30_Witness ==
    /\ Scanned /\ script.ok
    /\ Len(emitted) = 3
    /\ emitted[1].line_number = 1 /\ "setTimeout" \in Range(emitted[1].details)
    /\ emitted[2].line_number = 2 /\ "eval" \in Range(emitted[2].details)
    /\ emitted[3].line_number = 2 /\ "atob" \in Range(emitted[3].details)
    /\ Len(PreOrder(script.ast)) = 9

====
